---- MODULE Spec2Model ----
(***************************************************************************)
(* Intake aggregation of the nutrition API (index.js): the three handlers  *)
(*   POST /api/intake/add/:id     (increment)                              *)
(*   PUT  /api/intake/edit/:id    (overwrite)                              *)
(*   POST /api/intake/remove/:id  (decrement, clamped at zero)             *)
(* over the two tables daily_intakes and weekly_intakes.  Every handler is *)
(* a sequence of datastore round trips; each round trip is one step, so    *)
(* that handlers of different requests interleave between their queries.   *)
(* The routes of the other applications of the repository (index.old.js,   *)
(* unnamed/part_000, unnamed/part_002, src/index.js) are modelled call by  *)
(* call in the variable periph.                                            *)
(***************************************************************************)
EXTENDS Integers, Sequences, FiniteSets, TLC

VARIABLES
    tables,     \* table name -> (user_id, date) -> rows stored under it
    pc,         \* request slot -> position of its handler
    req,        \* request slot -> the request being served
    params,     \* request slot -> parameters of the handler's next query
    queries,    \* request slot -> datastore queries issued so far
    resp,       \* request slot -> the response sent
    lastEdit,   \* the overwrite applied last, while no other write followed it
    periph      \* the call a route outside the intake core is serving, and its outcome

vars == <<tables, pc, req, params, queries, resp, lastEdit, periph>>

----------------------------------------------------------------------------
(* Bounds of the model *)

\* number of requests that can be in flight at once
MaxReq == 2
\* largest magnitude of a number sent in a request body
MaxDelta == 2
\* largest stored value up to which further increments are issued
MaxVal == 2

----------------------------------------------------------------------------
(* JavaScript values *)

Undef == [k |-> "undef"]
Null == [k |-> "null"]
NaN == [k |-> "nan"]
Num(n) == [k |-> "num", n |-> n]
Str(s) == [k |-> "str", s |-> s]

IsNum(v) == v.k = "num"

\* the strings of the model that JavaScript reads as a decimal literal
NumericStrings == [s \in {"", "1", "2"} |-> CASE s = "" -> 0 [] s = "1" -> 1 [] s = "2" -> 2]

\* Number(v)
Number(v) ==
    CASE v.k = "num" -> v
      [] v.k = "nan" -> NaN
      [] v.k = "undef" -> NaN
      [] v.k = "null" -> Num(0)
      [] v.k = "str" -> IF v.s \in DOMAIN NumericStrings THEN Num(NumericStrings[v.s]) ELSE NaN

\* a ?? b
Coalesce(a, b) == IF a.k \in {"undef", "null"} THEN b ELSE a

\* a + b and a - b on numbers
JsAdd(a, b) == IF IsNum(a) /\ IsNum(b) THEN Num(a.n + b.n) ELSE NaN
JsSub(a, b) == IF IsNum(a) /\ IsNum(b) THEN Num(a.n - b.n) ELSE NaN
\* a < b on numbers: false as soon as one side is NaN
JsLt(a, b) == IsNum(a) /\ IsNum(b) /\ a.n < b.n

\* !v
Falsy(v) ==
    \/ v.k \in {"undef", "null", "nan"}
    \/ v.k = "str" /\ v.s = ""
    \/ v.k = "num" /\ v.n = 0

----------------------------------------------------------------------------
(* Helpers of index.js *)

\* variant: no clamp
clampNonNegOff(n) == n

clampNonNeg(n) == IF JsLt(n, Num(0)) THEN Num(0) ELSE n

NUTRIENT_FIELDS == <<"calories", "protein", "carbs", "fats", "fiber", "water">>

NutrientSet == {NUTRIENT_FIELDS[i] : i \in 1..Len(NUTRIENT_FIELDS)}

\* variant: a scope other than "weekly" selects the daily table
tableForScopeLax(scope) ==
    IF scope = Str("weekly") THEN Str("weekly_intakes") ELSE Str("daily_intakes")

tableForScope(scope) ==
    IF scope = Str("daily") THEN Str("daily_intakes")
    ELSE IF scope = Str("weekly") THEN Str("weekly_intakes")
    ELSE Null

----------------------------------------------------------------------------
(* The datastore: two tables with the columns user_id, date and the six    *)
(* nutrient columns.  A table maps (user_id, date) to the rows stored      *)
(* under it, in insertion order.  A statement answers with ok (FALSE when  *)
(* the datastore refuses it), the tables after it and the rows it returns. *)

TableNames == {"daily_intakes", "weekly_intakes"}

Users == {"u1", "u2"}
Dates == {"2024-01-01", "2024-01-02"}

\* updated_at = NOW(): the time of the statement that assigns it
NOW == [k |-> "now"]

\* the value of a column the INSERT does not list: the column's default,
\* which the statement leaves to the table
DEFAULT == [k |-> "default"]

\* the row a statement builds from its parameters $1..$8: the column list
\* of the statements is (user_id, date, calories, protein, carbs, fats,
\* fiber, water)
RowOf(p) ==
    [user_id |-> p[1], date |-> p[2],
     calories |-> p[3], protein |-> p[4], carbs |-> p[5],
     fats |-> p[6], fiber |-> p[7], water |-> p[8],
     updated_at |-> DEFAULT]

\* WHERE user_id = $1 AND date = $2
Where(p) == <<p[1], p[2]>>

\* $2 is a calendar date; any other value is refused by the date column
DateAccepted(p) == p[2] \in Dates

Refused(t) == [ok |-> FALSE, tables |-> t, rows |-> <<>>]

\* SELECT * FROM table WHERE user_id = $1 AND date = $2
SqlSelect(t, tab, p) ==
    IF ~DateAccepted(p) THEN Refused(t)
    ELSE [ok |-> TRUE, tables |-> t, rows |-> t[tab][Where(p)]]

\* variant: no uniqueness constraint
ConflictNever(t, tab, p) == FALSE

\* the uniqueness constraint on (user_id, date), the conflict target of the
\* upserts: a second row under the same pair is a conflict
Conflict(t, tab, p) == Len(t[tab][Where(p)]) > 0

\* variant: INSERT ... ON CONFLICT (user_id, date) DO UPDATE SET
\* calories = table.calories + EXCLUDED.calories, ... RETURNING *
SqlInsertOrAdd(t, tab, p) ==
    IF ~DateAccepted(p) THEN Refused(t)
    ELSE LET old == t[tab][Where(p)]
             new == IF Len(old) = 0 THEN <<RowOf(p)>>
                    ELSE [i \in 1..Len(old) |->
                            [old[i] EXCEPT !.calories = JsAdd(@, p[3]),
                                           !.protein = JsAdd(@, p[4]),
                                           !.carbs = JsAdd(@, p[5]),
                                           !.fats = JsAdd(@, p[6]),
                                           !.fiber = JsAdd(@, p[7]),
                                           !.water = JsAdd(@, p[8]),
                                           !.updated_at = NOW]]
         IN  [ok |-> TRUE, tables |-> [t EXCEPT ![tab][Where(p)] = new], rows |-> new]

\* INSERT INTO table (...) VALUES ($1..$8) RETURNING *
SqlInsert(t, tab, p) ==
    IF ~DateAccepted(p) \/ Conflict(t, tab, p) THEN Refused(t)
    ELSE [ok |-> TRUE,
          tables |-> [t EXCEPT ![tab][Where(p)] = Append(@, RowOf(p))],
          rows |-> <<RowOf(p)>>]

\* the larger of two numbers, GREATEST(a, b)
Greatest(a, b) == IF JsLt(a, b) THEN b ELSE a

\* variant: UPDATE table SET calories = GREATEST(calories, $3), ...
SqlUpdateGreatest(t, tab, p) ==
    IF ~DateAccepted(p) THEN Refused(t)
    ELSE LET old == t[tab][Where(p)]
             new == [i \in 1..Len(old) |->
                        [old[i] EXCEPT !.calories = Greatest(@, p[3]),
                                       !.protein = Greatest(@, p[4]),
                                       !.carbs = Greatest(@, p[5]),
                                       !.fats = Greatest(@, p[6]),
                                       !.fiber = Greatest(@, p[7]),
                                       !.water = Greatest(@, p[8]),
                                       !.updated_at = NOW]]
         IN  [ok |-> TRUE, tables |-> [t EXCEPT ![tab][Where(p)] = new], rows |-> new]

\* variant: UPDATE table SET calories = $3 WHERE user_id = $1 AND date = $2
SqlUpdateCaloriesOnly(t, tab, p) ==
    IF ~DateAccepted(p) THEN Refused(t)
    ELSE LET old == t[tab][Where(p)]
             new == [i \in 1..Len(old) |-> [old[i] EXCEPT !.calories = p[3], !.updated_at = NOW]]
         IN  [ok |-> TRUE, tables |-> [t EXCEPT ![tab][Where(p)] = new], rows |-> new]

\* variant: UPDATE table SET ... WHERE user_id = $1 RETURNING *
SqlUpdateAllDates(t, tab, p) ==
    IF ~DateAccepted(p) THEN Refused(t)
    ELSE LET set(rows) == [i \in 1..Len(rows) |->
                            [rows[i] EXCEPT !.calories = p[3], !.protein = p[4],
                                            !.carbs = p[5], !.fats = p[6],
                                            !.fiber = p[7], !.water = p[8],
                                            !.updated_at = NOW]]
             new == [k \in DOMAIN t[tab] |->
                        IF k[1] = p[1] THEN set(t[tab][k]) ELSE t[tab][k]]
         IN  [ok |-> TRUE, tables |-> [t EXCEPT ![tab] = new], rows |-> new[Where(p)]]

\* UPDATE table SET calories = $3, protein = $4, carbs = $5, fats = $6,
\* fiber = $7, water = $8, updated_at = NOW() WHERE user_id = $1 AND date = $2 RETURNING *
SqlUpdate(t, tab, p) ==
    IF ~DateAccepted(p) THEN Refused(t)
    ELSE LET old == t[tab][Where(p)]
             new == [i \in 1..Len(old) |->
                        [old[i] EXCEPT !.calories = p[3], !.protein = p[4],
                                       !.carbs = p[5], !.fats = p[6],
                                       !.fiber = p[7], !.water = p[8],
                                           !.updated_at = NOW]]
         IN  [ok |-> TRUE, tables |-> [t EXCEPT ![tab][Where(p)] = new], rows |-> new]

\* variant: ON CONFLICT DO NOTHING
SqlUpsertKeep(t, tab, p) ==
    IF ~DateAccepted(p) THEN Refused(t)
    ELSE IF Conflict(t, tab, p) THEN [ok |-> TRUE, tables |-> t, rows |-> <<>>]
    ELSE [ok |-> TRUE,
          tables |-> [t EXCEPT ![tab][Where(p)] = <<RowOf(p)>>],
          rows |-> <<RowOf(p)>>]

\* variant: DO UPDATE SET calories = table.calories + EXCLUDED.calories, ...
SqlUpsertAdd(t, tab, p) ==
    IF ~DateAccepted(p) THEN Refused(t)
    ELSE LET old == t[tab][Where(p)]
             new == IF ~Conflict(t, tab, p) THEN <<RowOf(p)>>
                    ELSE [i \in 1..Len(old) |->
                            [old[i] EXCEPT !.calories = JsAdd(@, p[3]),
                                           !.protein = JsAdd(@, p[4]),
                                           !.carbs = JsAdd(@, p[5]),
                                           !.fats = JsAdd(@, p[6]),
                                           !.fiber = JsAdd(@, p[7]),
                                           !.water = JsAdd(@, p[8]),
                                       !.updated_at = NOW]]
         IN  [ok |-> TRUE, tables |-> [t EXCEPT ![tab][Where(p)] = new], rows |-> new]

\* variant: a plain INSERT that answers with the row already stored when
\* the key is taken (the first overwrite wins)
SqlUpsertFirstWins(t, tab, p) ==
    IF ~DateAccepted(p) THEN Refused(t)
    ELSE IF Conflict(t, tab, p) THEN [ok |-> TRUE, tables |-> t, rows |-> t[tab][Where(p)]]
    ELSE [ok |-> TRUE,
          tables |-> [t EXCEPT ![tab][Where(p)] = <<RowOf(p)>>],
          rows |-> <<RowOf(p)>>]

\* INSERT ... VALUES ($1..$8) ON CONFLICT (user_id, date) DO UPDATE SET
\* calories = EXCLUDED.calories, ..., updated_at = NOW() RETURNING *   (edit); EXCLUDED is the
\* row proposed for insertion
SqlUpsertExcluded(t, tab, p) ==
    IF ~DateAccepted(p) THEN Refused(t)
    ELSE LET old == t[tab][Where(p)]
             excluded == RowOf(p)
             new == IF ~Conflict(t, tab, p) THEN <<excluded>>
                    ELSE [i \in 1..Len(old) |->
                            [old[i] EXCEPT !.calories = excluded.calories,
                                           !.protein = excluded.protein,
                                           !.carbs = excluded.carbs,
                                           !.fats = excluded.fats,
                                           !.fiber = excluded.fiber,
                                           !.water = excluded.water,
                                           !.updated_at = NOW]]
         IN  [ok |-> TRUE, tables |-> [t EXCEPT ![tab][Where(p)] = new], rows |-> new]

\* variant: INSERT ... ON CONFLICT (user_id, date) DO NOTHING, answered with
\* the stored row
SqlUpsertParamsKeep(t, tab, p) ==
    IF ~DateAccepted(p) THEN Refused(t)
    ELSE IF Conflict(t, tab, p) THEN [ok |-> TRUE, tables |-> t, rows |-> t[tab][Where(p)]]
    ELSE [ok |-> TRUE,
          tables |-> [t EXCEPT ![tab][Where(p)] = <<RowOf(p)>>],
          rows |-> <<RowOf(p)>>]

\* variant: the upsert followed by DELETE of a record whose six values are 0
SqlUpsertParamsDropZero(t, tab, p) ==
    IF ~DateAccepted(p) THEN Refused(t)
    ELSE LET old == t[tab][Where(p)]
             new == IF \A i \in 3..8 : p[i] = Num(0) THEN <<>>
                    ELSE IF ~Conflict(t, tab, p) THEN <<RowOf(p)>>
                    ELSE [i \in 1..Len(old) |->
                            [old[i] EXCEPT !.calories = p[3], !.protein = p[4],
                                           !.carbs = p[5], !.fats = p[6],
                                           !.fiber = p[7], !.water = p[8],
                                           !.updated_at = NOW]]
         IN  [ok |-> TRUE, tables |-> [t EXCEPT ![tab][Where(p)] = new], rows |-> new]

\* INSERT ... VALUES ($1..$8) ON CONFLICT (user_id, date) DO UPDATE SET
\* calories = $3, ..., water = $8, updated_at = NOW() RETURNING *   (remove)
SqlUpsertParams(t, tab, p) ==
    IF ~DateAccepted(p) THEN Refused(t)
    ELSE LET old == t[tab][Where(p)]
             new == IF ~Conflict(t, tab, p) THEN <<RowOf(p)>>
                    ELSE [i \in 1..Len(old) |->
                            [old[i] EXCEPT !.calories = p[3], !.protein = p[4],
                                           !.carbs = p[5], !.fats = p[6],
                                           !.fiber = p[7], !.water = p[8],
                                           !.updated_at = NOW]]
         IN  [ok |-> TRUE, tables |-> [t EXCEPT ![tab][Where(p)] = new], rows |-> new]

\* variant: rows[1]
Second(rows) == IF Len(rows) < 2 THEN Undef ELSE rows[2]

\* rows[0]
First(rows) == IF Len(rows) = 0 THEN Undef ELSE rows[1]

\* the text a parameter is sent as: a string as it is, undefined and null
\* as NULL
DateParam(date) == IF date.k = "str" THEN date.s ELSE "NULL"

----------------------------------------------------------------------------
(* Responses *)

NoResp == [code |-> 0, status |-> "", intake |-> Undef, error |-> ""]
Ok(status, intake) == [code |-> 200, status |-> status, intake |-> intake, error |-> ""]
Err(code, msg) == [code |-> code, status |-> "", intake |-> Undef, error |-> msg]

ScopeError == "scope must be 'daily' or 'weekly'"
DateError == "date is required (YYYY-MM-DD)"

\* variant: res.status(500).json({ error: err.message })
FailureMessageDetail(op) == "duplicate key value violates unique constraint"

FailureMessage(op) ==
    CASE op = "add" -> "Failed to add intake"
      [] op = "edit" -> "Failed to edit intake"
      [] op = "remove" -> "Failed to remove intake"

NoReq == [op |-> "", userId |-> "", scope |-> Undef, date |-> Undef,
          payload |-> [f \in NutrientSet |-> Undef]]

----------------------------------------------------------------------------
(* Values the handlers compute *)

\* variant: NUTRIENT_FIELDS.map((f) => Number(payload[f]))
PayloadValsNoDefault(payload) ==
    [i \in 1..Len(NUTRIENT_FIELDS) |-> Number(payload[NUTRIENT_FIELDS[i]])]

\* NUTRIENT_FIELDS.map((f) => Number(payload[f] ?? 0))
PayloadVals(payload) ==
    [i \in 1..Len(NUTRIENT_FIELDS) |-> Number(Coalesce(payload[NUTRIENT_FIELDS[i]], Num(0)))]

\* variant: newVals[f] = addBy
AddNewValsNoCurrent(current, payload) ==
    [f \in NutrientSet |-> Number(Coalesce(payload[f], Num(0)))]

\* add, update branch: newVals[f] = Number(current[f] ?? 0) + addBy
AddNewVals(current, payload) ==
    [f \in NutrientSet |->
        LET addBy == Number(Coalesce(payload[f], Num(0)))
        IN JsAdd(Number(Coalesce(current[f], Num(0))), addBy)]

\* variant: base = rows[1] || {calories: 0, ..., water: 0}
RemoveBaseSecond(rows) ==
    IF Len(rows) < 2 THEN [f \in NutrientSet |-> Num(0)] ELSE rows[2]

\* remove: base = rows[0] || {calories: 0, ..., water: 0}
RemoveBase(rows) ==
    IF Len(rows) = 0 THEN [f \in NutrientSet |-> Num(0)] ELSE rows[1]

\* variant: newVals[f] = clampNonNeg(removeBy - Number(base[f] ?? 0))
RemoveNewValsSwapped(base, payload) ==
    [f \in NutrientSet |->
        LET removeBy == Number(Coalesce(payload[f], Num(0)))
        IN clampNonNeg(JsSub(removeBy, Number(Coalesce(base[f], Num(0)))))]

\* variant: newVals[f] = Number(base[f] ?? 0) - removeBy
RemoveNewValsNoClamp(base, payload) ==
    [f \in NutrientSet |->
        LET removeBy == Number(Coalesce(payload[f], Num(0)))
        IN JsSub(Number(Coalesce(base[f], Num(0))), removeBy)]

\* remove: newVals[f] = clampNonNeg(Number(base[f] ?? 0) - removeBy)
RemoveNewVals(base, payload) ==
    [f \in NutrientSet |->
        LET removeBy == Number(Coalesce(payload[f], Num(0)))
        IN clampNonNeg(JsSub(Number(Coalesce(base[f], Num(0))), removeBy))]

\* [userId, date, ...vals]
SpreadParams(userId, date, vals) ==
    <<userId, DateParam(date), vals[1], vals[2], vals[3], vals[4], vals[5], vals[6]>>

\* [userId, date, newVals.calories, newVals.protein, newVals.carbs,
\*  newVals.fats, newVals.fiber, newVals.water]
NamedParams(userId, date, newVals) ==
    <<userId, DateParam(date), newVals.calories, newVals.protein, newVals.carbs,
      newVals.fats, newVals.fiber, newVals.water>>

\* [userId, date]
KeyParams(userId, date) == <<userId, DateParam(date)>>

NoParams == <<>>

\* variant: if (date === "")
DateEmpty(date) == date.k = "str" /\ date.s = ""

\* if (!date)
DateMissing(date) == Falsy(date)

----------------------------------------------------------------------------
(* The handlers.  A request slot r serves one request at a time; a step is *)
(* the handler's code from one await to the next.                          *)

Requests == 1..MaxReq

Ops == {"add", "edit", "remove"}

TableOf(r) == tableForScope(req[r].scope).s

\* the numbers a handler is about to store stay within the bounds of the
\* model
WithinBounds(newVals) ==
    \A f \in NutrientSet : IsNum(newVals[f]) => newVals[f].n \in -MaxVal..MaxVal

NoEdit == [userId |-> "", scope |-> Undef, date |-> Undef,
           payload |-> [f \in NutrientSet |-> Undef], times |-> 0]

\* request r has the key and the values of the overwrite applied last
SameAsLastEdit(r) ==
    /\ lastEdit.userId = req[r].userId
    /\ lastEdit.scope = req[r].scope
    /\ lastEdit.date = req[r].date
    /\ lastEdit.payload = req[r].payload

\* the overwrite of request r, counted once, or twice when it repeats the
\* overwrite applied last
EditApplied(r) ==
    [userId |-> req[r].userId, scope |-> req[r].scope, date |-> req[r].date,
     payload |-> req[r].payload, times |-> IF SameAsLastEdit(r) THEN 2 ELSE 1]

\* the handler up to its first await: the scope and date checks, then the
\* first query is sent (the SELECT of add and remove, the upsert of edit)
Receive(r, op, userId, body) ==
    /\ pc[r] = "idle"
    /\ req' = [req EXCEPT ![r] = [op |-> op, userId |-> userId, scope |-> body.scope,
                                  date |-> body.date, payload |-> body.payload]]
    /\ LET table == tableForScope(body.scope)
       IN  IF Falsy(table)
           THEN /\ resp' = [resp EXCEPT ![r] = Err(400, ScopeError)]
                /\ pc' = [pc EXCEPT ![r] = "done"]
                /\ UNCHANGED <<params, queries>>
           ELSE IF DateMissing(body.date)
           THEN /\ resp' = [resp EXCEPT ![r] = Err(400, DateError)]
                /\ pc' = [pc EXCEPT ![r] = "done"]
                /\ UNCHANGED <<params, queries>>
           ELSE /\ queries' = [queries EXCEPT ![r] = 1]
                /\ IF op = "edit"
                   THEN /\ params' = [params EXCEPT ![r] =
                                SpreadParams(userId, body.date, PayloadVals(body.payload))]
                        /\ pc' = [pc EXCEPT ![r] = "upsert_edit"]
                   ELSE /\ params' = [params EXCEPT ![r] = KeyParams(userId, body.date)]
                        /\ pc' = [pc EXCEPT ![r] = "select"]
                /\ UNCHANGED resp
    /\ UNCHANGED <<tables, lastEdit, periph>>

\* variant: catch (err) { console.error(err); }
CatchSilent(r) == UNCHANGED <<resp, pc>>

\* the catch block of the handler of request r
Catch(r) ==
    /\ resp' = [resp EXCEPT ![r] = Err(500, FailureMessage(req[r].op))]
    /\ pc' = [pc EXCEPT ![r] = "done"]

\* add: the SELECT returns; the handler computes the row and sends the
\* INSERT (no row found) or the UPDATE (row found)
AddSelect(r) ==
    /\ pc[r] = "select"
    /\ req[r].op = "add"
    /\ LET sel == SqlSelect(tables, TableOf(r), params[r])
       IN  IF ~sel.ok
           THEN Catch(r) /\ UNCHANGED <<params, queries>>
           ELSE IF Len(sel.rows) = 0
           THEN /\ params' = [params EXCEPT ![r] =
                        SpreadParams(req[r].userId, req[r].date, PayloadVals(req[r].payload))]
                /\ pc' = [pc EXCEPT ![r] = "insert"]
                /\ queries' = [queries EXCEPT ![r] = @ + 1]
                /\ UNCHANGED resp
           ELSE /\ WithinBounds(AddNewVals(sel.rows[1], req[r].payload))
                /\ params' = [params EXCEPT ![r] =
                        NamedParams(req[r].userId, req[r].date,
                                    AddNewVals(sel.rows[1], req[r].payload))]
                /\ pc' = [pc EXCEPT ![r] = "update"]
                /\ queries' = [queries EXCEPT ![r] = @ + 1]
                /\ UNCHANGED resp
    /\ UNCHANGED <<tables, req, lastEdit, periph>>

\* add: the INSERT returns; "created", or the catch block when the
\* statement is refused
AddInsert(r) ==
    /\ pc[r] = "insert"
    /\ LET ins == SqlInsert(tables, TableOf(r), params[r])
       IN  /\ tables' = ins.tables
           /\ IF ins.ok
              THEN /\ resp' = [resp EXCEPT ![r] = Ok("created", First(ins.rows))]
                   /\ pc' = [pc EXCEPT ![r] = "done"]
                   /\ lastEdit' = NoEdit
              ELSE Catch(r) /\ UNCHANGED lastEdit
    /\ UNCHANGED <<req, params, queries, periph>>

\* add: the UPDATE returns; "updated"
AddUpdate(r) ==
    /\ pc[r] = "update"
    /\ LET upd == SqlUpdate(tables, TableOf(r), params[r])
       IN  /\ tables' = upd.tables
           /\ IF upd.ok
              THEN /\ resp' = [resp EXCEPT ![r] = Ok("updated", First(upd.rows))]
                   /\ pc' = [pc EXCEPT ![r] = "done"]
                   /\ lastEdit' = NoEdit
              ELSE Catch(r) /\ UNCHANGED lastEdit
    /\ UNCHANGED <<req, params, queries, periph>>

\* edit: the upsert returns; "upserted"
EditUpsert(r) ==
    /\ pc[r] = "upsert_edit"
    /\ LET up == SqlUpsertExcluded(tables, TableOf(r), params[r])
       IN  /\ tables' = up.tables
           /\ IF up.ok
              THEN /\ resp' = [resp EXCEPT ![r] = Ok("upserted", First(up.rows))]
                   /\ pc' = [pc EXCEPT ![r] = "done"]
                   /\ lastEdit' = EditApplied(r)
              ELSE Catch(r) /\ UNCHANGED lastEdit
    /\ UNCHANGED <<req, params, queries, periph>>

\* remove: the SELECT returns; the handler computes the clamped row and
\* sends the upsert
RemoveSelect(r) ==
    /\ pc[r] = "select"
    /\ req[r].op = "remove"
    /\ LET sel == SqlSelect(tables, TableOf(r), params[r])
           base == RemoveBase(sel.rows)
       IN  IF ~sel.ok
           THEN Catch(r) /\ UNCHANGED <<params, queries>>
           ELSE /\ WithinBounds(RemoveNewVals(base, req[r].payload))
                /\ params' = [params EXCEPT ![r] =
                        NamedParams(req[r].userId, req[r].date,
                                    RemoveNewVals(base, req[r].payload))]
                /\ pc' = [pc EXCEPT ![r] = "upsert_remove"]
                /\ queries' = [queries EXCEPT ![r] = @ + 1]
                /\ UNCHANGED resp
    /\ UNCHANGED <<tables, req, lastEdit, periph>>

\* remove: the upsert returns; "updated"
RemoveUpsert(r) ==
    /\ pc[r] = "upsert_remove"
    /\ LET up == SqlUpsertParams(tables, TableOf(r), params[r])
       IN  /\ tables' = up.tables
           /\ IF up.ok
              THEN /\ resp' = [resp EXCEPT ![r] = Ok("updated", First(up.rows))]
                   /\ pc' = [pc EXCEPT ![r] = "done"]
                   /\ lastEdit' = NoEdit
              ELSE Catch(r) /\ UNCHANGED lastEdit
    /\ UNCHANGED <<req, params, queries, periph>>

\* the query in flight fails in the datastore (connectivity): the catch
\* block answers
QueryFails(r) ==
    /\ pc[r] \in {"select", "insert", "update", "upsert_edit", "upsert_remove"}
    /\ Catch(r)
    /\ UNCHANGED <<tables, req, params, queries, lastEdit, periph>>

\* the response has been sent; the slot serves the next request
Finish(r) ==
    /\ pc[r] = "done"
    /\ pc' = [pc EXCEPT ![r] = "idle"]
    /\ req' = [req EXCEPT ![r] = NoReq]
    /\ params' = [params EXCEPT ![r] = NoParams]
    /\ queries' = [queries EXCEPT ![r] = 0]
    /\ resp' = [resp EXCEPT ![r] = NoResp]
    /\ UNCHANGED <<tables, lastEdit, periph>>

----------------------------------------------------------------------------
(* Request bodies *)

\* a body {scope, date, ...payload}
Body(scope, date, payload) == [scope |-> scope, date |-> date, payload |-> payload]

\* the payload that gives the fields of given the values of vals, in order
PayloadOf(given, vals) ==
    [f \in NutrientSet |->
        IF \E i \in 1..Len(given) : given[i] = f
        THEN vals[CHOOSE i \in 1..Len(given) : given[i] = f]
        ELSE Undef]

\* no call to a route outside the intake core
NoCall == [kind |-> "none"]

Init ==
    /\ tables = [tab \in TableNames |-> [k \in Users \X Dates |-> <<>>]]
    /\ pc = [r \in Requests |-> "idle"]
    /\ req = [r \in Requests |-> NoReq]
    /\ params = [r \in Requests |-> NoParams]
    /\ queries = [r \in Requests |-> 0]
    /\ resp = [r \in Requests |-> NoResp]
    /\ lastEdit = NoEdit
    /\ periph = NoCall

Step(r) ==
    \/ AddSelect(r)
    \/ AddInsert(r)
    \/ AddUpdate(r)
    \/ EditUpsert(r)
    \/ RemoveSelect(r)
    \/ RemoveUpsert(r)
    \/ QueryFails(r)
    \/ Finish(r)

----------------------------------------------------------------------------
(* Specification of concurrent clients: two requests in flight on one key, *)
(* of every kind, valid, with positive numbers                             *)

ConcPayloads ==
    {PayloadOf(<<>>, <<>>)}
      \cup {PayloadOf(<<"calories">>, <<v>>) : v \in {Num(1), Num(MaxDelta)}}
ConcBodies == {Body(Str("daily"), Str("2024-01-01"), p) : p \in ConcPayloads}

Next ==
    \E r \in Requests :
        \/ \E op \in Ops, b \in ConcBodies : Receive(r, op, "u1", b)
        \/ Step(r)

Spec == Init /\ [][Next]_vars

----------------------------------------------------------------------------
(* Specification of one client at a time, on the two tables: requests of   *)
(* every kind, with valid and invalid scope and date, positive and         *)
(* negative numbers                                                        *)

SeqNumbers == {Num(n) : n \in (-1..MaxDelta) \ {0}}
SeqPayloads ==
    {PayloadOf(<<>>, <<>>)}
      \cup {PayloadOf(<<"calories">>, <<v>>) : v \in SeqNumbers}
      \cup {PayloadOf(<<"water">>, <<v>>) : v \in SeqNumbers}
      \cup {PayloadOf(NUTRIENT_FIELDS, <<Num(2), Num(1), Num(2), Num(1), Num(2), Num(1)>>)}
ValidBodies ==
    {Body(s, Str("2024-01-01"), p) : s \in {Str("daily"), Str("weekly")}, p \in SeqPayloads}
InvalidBodies ==
    {Body(s, d, PayloadOf(<<"calories">>, <<Num(1)>>)) :
        s \in {Str("daily"), Str("monthly"), Str("Daily"), Undef},
        d \in {Str("2024-01-01"), Str(""), Undef}}
SeqBodies == ValidBodies \cup InvalidBodies

SeqNext ==
    \/ \E op \in Ops, b \in SeqBodies : Receive(1, op, "u1", b)
    \/ Step(1)

SeqSpec == Init /\ [][SeqNext]_vars

----------------------------------------------------------------------------
(* Specification of one client on one key whose bodies give calories as a  *)
(* number, a numeric string, a string that is no number, or null           *)

CoercePayloads ==
    {PayloadOf(<<"calories">>, <<v>>) : v \in {Num(1), Str("2"), Str("abc"), Null}}
CoerceBodies == {Body(Str("daily"), Str("2024-01-01"), p) : p \in CoercePayloads}

CoerceNext ==
    \/ \E op \in Ops, b \in CoerceBodies : Receive(1, op, "u1", b)
    \/ Step(1)

CoerceSpec == Init /\ [][CoerceNext]_vars

\* The service with an existing record and one client that runs an add and
\* a remove with the same deltas one after the other, in either order. The
\* record starts with non-negative calories and water; the same values are
\* stored under a second user, which no request of the client touches.
PairRecords ==
    {<<Num(c), Num(0), Num(0), Num(0), Num(0), Num(w)>> : c \in 0..MaxVal, w \in 0..MaxVal}
PairPayloads ==
    {PayloadOf(<<"calories">>, <<Num(d)>>) : d \in 1..MaxDelta}
      \cup {PayloadOf(<<"calories", "water">>, <<Num(d), Num(1)>>) : d \in 1..MaxDelta}
PairBodies == {Body(Str("daily"), Str("2024-01-01"), p) : p \in PairPayloads}

PairInit ==
    /\ \E vals \in PairRecords :
          tables = [tab \in TableNames |->
                      [k \in Users \X Dates |->
                          IF tab = "daily_intakes" /\ k[2] = "2024-01-01"
                          THEN <<RowOf(SpreadParams(k[1], Str(k[2]), vals))>>
                          ELSE <<>>]]
    /\ pc = [r \in Requests |-> "idle"]
    /\ req = [r \in Requests |-> NoReq]
    /\ params = [r \in Requests |-> NoParams]
    /\ queries = [r \in Requests |-> 0]
    /\ resp = [r \in Requests |-> NoResp]
    /\ lastEdit = NoEdit
    /\ periph = NoCall

\* the opposite operation
Inverse(op) == IF op = "add" THEN "remove" ELSE "add"

PairNext ==
    \/ \E op \in {"add", "remove"}, b \in PairBodies :
          /\ pc[2] = "idle"
          /\ Receive(1, op, "u1", b)
    \/ \E b \in PairBodies :
          /\ pc[1] = "done" /\ resp[1].code = 200
          /\ b.payload = req[1].payload
          /\ Receive(2, Inverse(req[1].op), "u1", b)
    \/ \E r \in Requests :
          \/ AddSelect(r) \/ AddUpdate(r)
          \/ RemoveSelect(r) \/ RemoveUpsert(r)
          \/ QueryFails(r)

PairSpec == PairInit /\ [][PairNext]_vars

\* The service with one client at a time working on four neighbouring
\* keys: a key, the same key in the other scope, the same user on another
\* date, and another user on the same date.
FramePayloads == {PayloadOf(<<"calories">>, <<Num(1)>>)}
FrameTargets ==
    {<<"u1", Str("daily"), Str("2024-01-01")>>,
     <<"u1", Str("weekly"), Str("2024-01-01")>>,
     <<"u1", Str("daily"), Str("2024-01-02")>>,
     <<"u2", Str("daily"), Str("2024-01-01")>>}

FrameNext ==
    \/ \E op \in Ops, k \in FrameTargets, p \in FramePayloads :
            Receive(1, op, k[1], Body(k[2], k[3], p))
    \/ Step(1)

FrameSpec == Init /\ [][FrameNext]_vars

\* the datastore answers the query request r awaits, with a result or with
\* an error, and the handler runs to its next await or to its response
Answer(r) ==
    \/ AddSelect(r) \/ AddInsert(r) \/ AddUpdate(r)
    \/ EditUpsert(r)
    \/ RemoveSelect(r) \/ RemoveUpsert(r)
    \/ QueryFails(r)

\* The service with two concurrent clients, each adding, overwriting or
\* removing one calorie under the same key, and a datastore that eventually
\* answers every query.
LivePayloads == {PayloadOf(<<"calories">>, <<Num(1)>>)}
LiveBodies == {Body(Str("daily"), Str("2024-01-01"), p) : p \in LivePayloads}

LiveNext ==
    \E r \in Requests :
        \/ \E op \in Ops, b \in LiveBodies : Receive(r, op, "u1", b)
        \/ Step(r)

LiveSpec == Init /\ [][LiveNext]_vars /\ \A r \in Requests : WF_vars(Answer(r))

\* The service with two concurrent clients whose payloads name different
\* fields: calories alone, water alone, or both.
MixPayloads ==
    {PayloadOf(<<"calories">>, <<Num(1)>>),
     PayloadOf(<<"water">>, <<Num(MaxDelta)>>),
     PayloadOf(<<"calories", "water">>, <<Num(MaxDelta), Num(1)>>)}
MixBodies == {Body(Str("daily"), Str("2024-01-01"), p) : p \in MixPayloads}

MixNext ==
    \E r \in Requests :
        \/ \E op \in Ops, b \in MixBodies : Receive(r, op, "u1", b)
        \/ Step(r)

MixSpec == Init /\ [][MixNext]_vars


----------------------------------------------------------------------------
(* Routing of the users API (index.old.js, unnamed/part_000)               *)

\* the HTTP methods the applications register routes for
Methods == {"GET", "POST", "PUT", "PATCH", "DELETE"}

\* a segment of a route path that is a parameter (:id, :intakeId) matches
\* any segment of the request path
IsParam(seg) == seg \in {":id", ":intakeId"}

\* the routes of index.old.js in the order of their registration; ALL with
\* the path * is app.use('*', ...)
OldRoutes ==
    <<
       [method |-> "GET", pattern |-> <<"api", "health">>, line |-> 40],
       [method |-> "GET", pattern |-> <<"api", "users">>, line |-> 49],
       [method |-> "GET", pattern |-> <<"api", "users", ":id">>, line |-> 68],
       [method |-> "POST", pattern |-> <<"api", "users">>, line |-> 96],
       [method |-> "PUT", pattern |-> <<"api", "users", ":id">>, line |-> 116],
       [method |-> "ALL", pattern |-> <<"*">>, line |-> 144],
       [method |-> "PATCH", pattern |-> <<"api", "users", ":id">>, line |-> 154],
       [method |-> "DELETE", pattern |-> <<"api", "users", ":id">>, line |-> 187],
       [method |-> "GET", pattern |-> <<"api", "profiles">>, line |-> 217],
       [method |-> "GET", pattern |-> <<"api", "users", ":id", "profile">>, line |-> 235],
       [method |-> "POST", pattern |-> <<"api", "users", ":id", "profile">>, line |-> 263],
       [method |-> "PUT", pattern |-> <<"api", "users", ":id", "profile">>, line |-> 288],
       [method |-> "GET", pattern |-> <<"api", "users", ":id", "intake">>, line |-> 318],
       [method |-> "GET", pattern |-> <<"api", "users", ":id", "intake", "range">>, line |-> 338],
       [method |-> "POST", pattern |-> <<"api", "users", ":id", "intake">>, line |-> 369],
       [method |-> "PUT", pattern |-> <<"api", "intake", ":intakeId">>, line |-> 394],
       [method |-> "DELETE", pattern |-> <<"api", "intake", ":intakeId">>, line |-> 422],
       [method |-> "GET", pattern |-> <<"api", "users", ":id", "stats">>, line |-> 452],
       [method |-> "GET", pattern |-> <<"api", "users", "search">>, line |-> 506],
       [method |-> "GET", pattern |-> <<"api", "health">>, line |-> 544],
       [method |-> "ALL", pattern |-> <<"*">>, line |-> 556]
    >>

\* the routes of unnamed/part_000 in the order of their registration
Part0Routes ==
    <<
       [method |-> "GET", pattern |-> <<"api", "schema">>, line |-> 98],
       [method |-> "GET", pattern |-> <<"api", "users">>, line |-> 105],
       [method |-> "GET", pattern |-> <<"api", "users", ":id">>, line |-> 127],
       [method |-> "POST", pattern |-> <<"api", "users">>, line |-> 159],
       [method |-> "PUT", pattern |-> <<"api", "users", ":id">>, line |-> 179],
       [method |-> "PATCH", pattern |-> <<"api", "users", ":id">>, line |-> 207],
       [method |-> "DELETE", pattern |-> <<"api", "users", ":id">>, line |-> 240],
       [method |-> "GET", pattern |-> <<"api", "profiles">>, line |-> 270],
       [method |-> "GET", pattern |-> <<"api", "users", ":id", "profile">>, line |-> 288],
       [method |-> "POST", pattern |-> <<"api", "users", ":id", "profile">>, line |-> 316],
       [method |-> "PUT", pattern |-> <<"api", "users", ":id", "profile">>, line |-> 341],
       [method |-> "GET", pattern |-> <<"api", "users", ":id", "intake">>, line |-> 371],
       [method |-> "GET", pattern |-> <<"api", "users", ":id", "intake", "range">>, line |-> 391],
       [method |-> "POST", pattern |-> <<"api", "users", ":id", "intake">>, line |-> 422],
       [method |-> "PUT", pattern |-> <<"api", "intake", ":intakeId">>, line |-> 447],
       [method |-> "DELETE", pattern |-> <<"api", "intake", ":intakeId">>, line |-> 475],
       [method |-> "GET", pattern |-> <<"api", "users", ":id", "stats">>, line |-> 505],
       [method |-> "GET", pattern |-> <<"api", "users", "search">>, line |-> 559],
       [method |-> "GET", pattern |-> <<"api", "health">>, line |-> 597],
       [method |-> "ALL", pattern |-> <<"*">>, line |-> 609]
    >>

\* availableEndpoints of the 404 handler of index.old.js
OldAvailableEndpoints ==
    <<
       [method |-> "GET", pattern |-> <<"api", "health">>],
       [method |-> "GET", pattern |-> <<"api", "schema">>],
       [method |-> "GET", pattern |-> <<"api", "users">>],
       [method |-> "GET", pattern |-> <<"api", "users", ":id">>],
       [method |-> "POST", pattern |-> <<"api", "users">>],
       [method |-> "PUT", pattern |-> <<"api", "users", ":id">>],
       [method |-> "PATCH", pattern |-> <<"api", "users", ":id">>],
       [method |-> "DELETE", pattern |-> <<"api", "users", ":id">>],
       [method |-> "GET", pattern |-> <<"api", "users", ":id", "profile">>],
       [method |-> "POST", pattern |-> <<"api", "users", ":id", "profile">>],
       [method |-> "PUT", pattern |-> <<"api", "users", ":id", "profile">>],
       [method |-> "GET", pattern |-> <<"api", "users", ":id", "intake">>],
       [method |-> "POST", pattern |-> <<"api", "users", ":id", "intake">>],
       [method |-> "PUT", pattern |-> <<"api", "intake", ":intakeId">>],
       [method |-> "DELETE", pattern |-> <<"api", "intake", ":intakeId">>],
       [method |-> "GET", pattern |-> <<"api", "users", ":id", "stats">>],
       [method |-> "GET", pattern |-> <<"api", "users", "search">>]
    >>

\* availableEndpoints of the 404 handler of unnamed/part_000
Part0AvailableEndpoints ==
    <<
       [method |-> "GET", pattern |-> <<"api", "health">>],
       [method |-> "GET", pattern |-> <<"api", "schema">>],
       [method |-> "GET", pattern |-> <<"api", "users">>],
       [method |-> "GET", pattern |-> <<"api", "users", ":id">>],
       [method |-> "POST", pattern |-> <<"api", "users">>],
       [method |-> "PUT", pattern |-> <<"api", "users", ":id">>],
       [method |-> "PATCH", pattern |-> <<"api", "users", ":id">>],
       [method |-> "DELETE", pattern |-> <<"api", "users", ":id">>],
       [method |-> "GET", pattern |-> <<"api", "users", ":id", "profile">>],
       [method |-> "POST", pattern |-> <<"api", "users", ":id", "profile">>],
       [method |-> "PUT", pattern |-> <<"api", "users", ":id", "profile">>],
       [method |-> "GET", pattern |-> <<"api", "users", ":id", "intake">>],
       [method |-> "POST", pattern |-> <<"api", "users", ":id", "intake">>],
       [method |-> "PUT", pattern |-> <<"api", "intake", ":intakeId">>],
       [method |-> "DELETE", pattern |-> <<"api", "intake", ":intakeId">>],
       [method |-> "GET", pattern |-> <<"api", "users", ":id", "stats">>],
       [method |-> "GET", pattern |-> <<"api", "users", "search">>]
    >>

Apps == {"index.old.js", "unnamed/part_000"}
RoutesOf(app) == IF app = "index.old.js" THEN OldRoutes ELSE Part0Routes
AvailableEndpointsOf(app) ==
    IF app = "index.old.js" THEN OldAvailableEndpoints ELSE Part0AvailableEndpoints

\* the route matches the request: app.use('*') matches every request, a
\* method route matches its method and a path of the same segments, a
\* parameter standing for any segment
RouteMatches(route, method, path) ==
    \/ route.method = "ALL"
    \/ /\ route.method = method
       /\ Len(route.pattern) = Len(path)
       /\ \A i \in 1..Len(path) : IsParam(route.pattern[i]) \/ route.pattern[i] = path[i]

\* no route matched
NotFound == [method |-> "", pattern |-> <<>>, line |-> 0]

\* the router: the first route registered that matches handles the
\* request (no handler of these applications passes the request on)
Dispatch(routes, method, path) ==
    LET matching == {i \in 1..Len(routes) : RouteMatches(routes[i], method, path)}
    IN  IF matching = {} THEN NotFound
        ELSE routes[CHOOSE i \in matching : \A j \in matching : i <= j]

\* the path of a request for a route: 42 for :id, 7 for :intakeId
PathFor(pattern) ==
    [i \in 1..Len(pattern) |->
        IF pattern[i] = ":id" THEN "42"
        ELSE IF pattern[i] = ":intakeId" THEN "7"
        ELSE pattern[i]]

\* the request paths sent: one per advertised endpoint, one for a route
\* that is registered but not advertised, one for no route at all
RequestPaths ==
    {PathFor(OldAvailableEndpoints[i].pattern) : i \in 1..Len(OldAvailableEndpoints)}
      \cup {<<"api", "users", "42", "intake", "range">>, <<"api", "unknown">>}

\* a request arrives at the application and is dispatched
Route(app, method, path) ==
    /\ periph' = [kind |-> "route", app |-> app, method |-> method, path |-> path,
                  handler |-> Dispatch(RoutesOf(app), method, path)]
    /\ UNCHANGED <<tables, pc, req, params, queries, resp, lastEdit>>

RouteNext == \E app \in Apps, method \in Methods, path \in RequestPaths : Route(app, method, path)

RouteSpec == Init /\ [][RouteNext]_vars


----------------------------------------------------------------------------
(* PATCH /:username/update (unnamed/part_002, src/index.js)                *)

\* the variables of the intake core, which the other routes leave alone
coreVars == <<tables, pc, req, params, queries, resp, lastEdit>>

allowedFields ==
    <<"age", "weight", "height", "body_fat_percentage",
      "gender", "goals", "allergies", "conditions", "medications">>

AllowedSet == {allowedFields[i] : i \in 1..Len(allowedFields)}

\* the columns of a row of users
UserColumns == AllowedSet \cup {"id", "username", "updated_at"}

\* the users stored, and the usernames requests name (carol has no row)
Usernames == {"alice", "bob"}
PatchUsernames == Usernames \cup {"carol"}

\* the keys a request body may carry: two allow-listed fields, the
\* identifying columns, updated_at, and a key that is no column
PatchKeys == {"age", "goals", "id", "username", "updated_at", "role"}

\* a request body: a value sent by the client under each of its keys
PatchBodies == UNION {[keys -> {"sent"}] : keys \in SUBSET PatchKeys}

\* new Date().toISOString()
NowISO == "now"

\* variant: validUpdate = updateData
ValidUpdateAll(updateData) == updateData

\* validUpdate: the entries of updateData whose key is in allowedFields
ValidUpdate(updateData) ==
    [key \in {k \in DOMAIN updateData : k \in AllowedSet} |-> updateData[key]]

\* validUpdate.updated_at = new Date().toISOString()
WithUpdatedAt(validUpdate) ==
    [key \in DOMAIN validUpdate \cup {"updated_at"} |->
        IF key = "updated_at" THEN NowISO ELSE validUpdate[key]]

\* supabase.from('users').update(validUpdate).eq('username', username):
\* the rows with that username get the values of validUpdate
SupabaseUpdate(users, validUpdate, username) ==
    [u \in DOMAIN users |->
        IF users[u].username = username
        THEN [c \in DOMAIN users[u] |->
                IF c \in DOMAIN validUpdate THEN validUpdate[c] ELSE users[u][c]]
        ELSE users[u]]

\* the row of user u before any update
StoredUser(u) == [c \in UserColumns |-> IF c = "username" THEN u ELSE "stored"]

PatchIdle(users) ==
    [kind |-> "patch", pc |-> "idle", username |-> "", body |-> <<>>,
     validUpdate |-> <<>>, status |-> 0, queries |-> 0, users |-> users]

PatchInit ==
    /\ tables = [tab \in TableNames |-> [k \in Users \X Dates |-> <<>>]]
    /\ pc = [r \in Requests |-> "idle"]
    /\ req = [r \in Requests |-> NoReq]
    /\ params = [r \in Requests |-> NoParams]
    /\ queries = [r \in Requests |-> 0]
    /\ resp = [r \in Requests |-> NoResp]
    /\ lastEdit = NoEdit
    /\ periph = PatchIdle([u \in Usernames |-> StoredUser(u)])

\* the handler up to its await: the allow-list filter, the 400 for an
\* empty validUpdate, the timestamp, and the update sent
PatchReceive(username, updateData) ==
    /\ periph.pc = "idle"
    /\ LET validUpdate == ValidUpdate(updateData)
       IN  IF DOMAIN validUpdate = {}
           THEN periph' = [periph EXCEPT !.pc = "done", !.username = username,
                                         !.body = updateData, !.status = 400]
           ELSE periph' = [periph EXCEPT !.pc = "update", !.username = username,
                                         !.body = updateData,
                                         !.validUpdate = WithUpdatedAt(validUpdate),
                                         !.queries = 1]
    /\ UNCHANGED coreVars

\* the update returns without error: 200
PatchUpdated ==
    /\ periph.pc = "update"
    /\ periph' = [periph EXCEPT
            !.pc = "done", !.status = 200,
            !.users = SupabaseUpdate(@, periph.validUpdate, periph.username)]
    /\ UNCHANGED coreVars

\* the update returns an error, or throws: 500
PatchFails ==
    /\ periph.pc = "update"
    /\ periph' = [periph EXCEPT !.pc = "done", !.status = 500]
    /\ UNCHANGED coreVars

\* the response has been sent
PatchFinish ==
    /\ periph.pc = "done"
    /\ periph' = PatchIdle(periph.users)
    /\ UNCHANGED coreVars

PatchNext ==
    \/ \E username \in PatchUsernames, body \in PatchBodies : PatchReceive(username, body)
    \/ PatchUpdated
    \/ PatchFails
    \/ PatchFinish

PatchSpec == PatchInit /\ [][PatchNext]_vars


----------------------------------------------------------------------------
(* validateRequired (unnamed/part_000, index.old.js)                       *)

\* the routes guarded by validateRequired, with the fields they require:
\* POST /api/users (part_000), POST /api/users (index.old.js),
\* POST /api/users/:id/intake (both)
RequiredFieldsOf(route) ==
    CASE route = "POST /api/users (part_000)" -> <<"username", "age">>
      [] route = "POST /api/users (index.old.js)" -> <<"username">>
      [] route = "POST /api/users/:id/intake" -> <<"date", "calories">>

ValidatedRoutes ==
    {"POST /api/users (part_000)", "POST /api/users (index.old.js)",
     "POST /api/users/:id/intake"}

\* the two body fields a route reads; a body gives each a value or omits it
BodyFieldsOf(route) ==
    IF route = "POST /api/users/:id/intake" THEN {"date", "calories"}
    ELSE {"username", "age"}

FieldValues == {Undef, Null, Num(0), Num(1), Str(""), Str("x")}

ValidatedBodies(route) == [BodyFieldsOf(route) -> FieldValues]

\* fields.filter(field => !req.body[field])
MissingFields(fields, body) ==
    LET missing(field) == Falsy(body[field])
    IN  SelectSeq(fields, missing)

ValidateIdle ==
    [kind |-> "validate", pc |-> "idle", route |-> "", body |-> <<>>,
     missingFields |-> <<>>, status |-> 0, queries |-> 0]

ValidateInit ==
    /\ tables = [tab \in TableNames |-> [k \in Users \X Dates |-> <<>>]]
    /\ pc = [r \in Requests |-> "idle"]
    /\ req = [r \in Requests |-> NoReq]
    /\ params = [r \in Requests |-> NoParams]
    /\ queries = [r \in Requests |-> 0]
    /\ resp = [r \in Requests |-> NoResp]
    /\ lastEdit = NoEdit
    /\ periph = ValidateIdle

\* the middleware: 400 with the missing fields, or next()
validateRequired(route, body) ==
    /\ periph.pc = "idle"
    /\ LET missingFields == MissingFields(RequiredFieldsOf(route), body)
       IN  IF Len(missingFields) > 0
           THEN periph' = [periph EXCEPT !.pc = "done", !.route = route, !.body = body,
                                         !.missingFields = missingFields, !.status = 400]
           ELSE periph' = [periph EXCEPT !.pc = "handler", !.route = route, !.body = body]
    /\ UNCHANGED coreVars

\* the route handler: the insert is sent, and answered 201 or with an error
HandlerInsert ==
    /\ periph.pc = "handler"
    /\ periph' = [periph EXCEPT !.pc = "insert", !.queries = 1]
    /\ UNCHANGED coreVars

HandlerAnswered ==
    /\ periph.pc = "insert"
    /\ \E status \in {201, 500} : periph' = [periph EXCEPT !.pc = "done", !.status = status]
    /\ UNCHANGED coreVars

ValidateNext ==
    \/ \E route \in ValidatedRoutes : \E body \in ValidatedBodies(route) :
            validateRequired(route, body)
    \/ HandlerInsert
    \/ HandlerAnswered

ValidateSpec == ValidateInit /\ [][ValidateNext]_vars


----------------------------------------------------------------------------
(* GET /api/users/:id (index.js): the week of today                        *)

\* the calendar the dates live in: January to April 2024, days per month
MonthDays == <<31, 29, 31, 30>>

\* a date of the calendar in server local time: month and day of month
CalendarDates ==
    UNION {{[m |-> m, d |-> d] : d \in 1..MonthDays[m]} : m \in 1..Len(MonthDays)}

\* days from 2024-01-01 to the first day of month m
RECURSIVE DaysBefore(_)
DaysBefore(m) == IF m = 1 THEN 0 ELSE DaysBefore(m - 1) + MonthDays[m - 1]

\* days from 2024-01-01 to the date
DayNumber(date) == DaysBefore(date.m) + date.d - 1

\* the date that many days after 2024-01-01
DateOfDayNumber(n) == CHOOSE date \in CalendarDates : DayNumber(date) = n

\* date.getDate()
getDate(date) == date.d

\* date.getDay(): 0 = Sunday .. 6 = Saturday; 2024-01-01 is a Monday
getDay(date) == (DayNumber(date) + 1) % 7

\* date.setDate(n): day n of the month of date, where n <= 0 counts back
\* into the months before and n beyond the month's last day counts on
\* into the months after
setDate(date, n) == DateOfDayNumber(DaysBefore(date.m) + n - 1)

\* variant: const diffToMonday = day - 1
diffToMondayNaive(day) == day - 1

\* const diffToMonday = (day + 6) % 7
diffToMonday(day) == (day + 6) % 7

\* the days on which requests arrive: February and March 2024
Todays == {date \in CalendarDates : date.m \in {2, 3}}

\* the rows of users, and the ids requests name
UserIds == {"u1"}
RequestedIds == {"u1", "u9"}

GetUserIdle ==
    [kind |-> "getUser", pc |-> "idle", userId |-> "", today |-> [m |-> 1, d |-> 1],
     diffToMonday |-> 0, monday |-> [m |-> 1, d |-> 1], sunday |-> [m |-> 1, d |-> 1],
     status |-> 0, queried |-> <<>>]

GetUserInit ==
    /\ tables = [tab \in TableNames |-> [k \in Users \X Dates |-> <<>>]]
    /\ pc = [r \in Requests |-> "idle"]
    /\ req = [r \in Requests |-> NoReq]
    /\ params = [r \in Requests |-> NoParams]
    /\ queries = [r \in Requests |-> 0]
    /\ resp = [r \in Requests |-> NoResp]
    /\ lastEdit = NoEdit
    /\ periph = GetUserIdle

\* the handler up to its first await: the week of today, then the query
\* on users
GetUserReceive(userId, today) ==
    /\ periph.pc = "idle"
    /\ LET day == getDay(today)
           diff == diffToMonday(day)
           monday == setDate(today, getDate(today) - diff)
           sunday == setDate(monday, getDate(monday) + 6)
       IN  periph' = [periph EXCEPT !.pc = "userQ", !.userId = userId, !.today = today,
                                    !.diffToMonday = diff, !.monday = monday,
                                    !.sunday = sunday, !.queried = <<"users">>]
    /\ UNCHANGED coreVars

\* userQ returns: 404 when there is no row, else the query on daily_intakes
GetUserFound ==
    /\ periph.pc = "userQ"
    /\ IF periph.userId \notin UserIds
       THEN periph' = [periph EXCEPT !.pc = "done", !.status = 404]
       ELSE periph' = [periph EXCEPT !.pc = "dailyQ",
                                     !.queried = Append(@, "daily_intakes")]
    /\ UNCHANGED coreVars

\* dailyQ returns: the query on weekly_intakes
GetUserDaily ==
    /\ periph.pc = "dailyQ"
    /\ periph' = [periph EXCEPT !.pc = "weeklyQ", !.queried = Append(@, "weekly_intakes")]
    /\ UNCHANGED coreVars

\* weeklyQ returns: the response
GetUserWeekly ==
    /\ periph.pc = "weeklyQ"
    /\ periph' = [periph EXCEPT !.pc = "done", !.status = 200]
    /\ UNCHANGED coreVars

\* the query in flight fails: the catch block answers 500
GetUserFails ==
    /\ periph.pc \in {"userQ", "dailyQ", "weeklyQ"}
    /\ periph' = [periph EXCEPT !.pc = "done", !.status = 500]
    /\ UNCHANGED coreVars

GetUserNext ==
    \/ \E userId \in RequestedIds, today \in Todays : GetUserReceive(userId, today)
    \/ GetUserFound
    \/ GetUserDaily
    \/ GetUserWeekly
    \/ GetUserFails

GetUserSpec == GetUserInit /\ [][GetUserNext]_vars

----------------------------------------------------------------------------
(* Vocabulary of the properties *)

\* the payload gives numbers only (a field may be absent)
NumericPayload(p) == \A f \in NutrientSet : p[f].k \in {"undef", "num"}

\* the delta or value a payload gives to field f: 0 for an absent field
Delta(p, f) == IF p[f].k = "num" THEN p[f].n ELSE 0

\* the rows stored in t under the key of request r
Stored(t, r) == t[TableOf(r)][<<req[r].userId, req[r].date.s>>]

\* the six nutrient values of a stored row, in the order of NUTRIENT_FIELDS
NutrientsOf(row) == [i \in 1..Len(NUTRIENT_FIELDS) |-> row[NUTRIENT_FIELDS[i]]]

\* the nutrient values of every stored record, key by key
NutrientsOfAll(t) ==
    [tab \in TableNames |->
        [k \in Users \X Dates |->
            [i \in 1..Len(t[tab][k]) |-> NutrientsOf(t[tab][k][i])]]]

NumericRow(row) == \A f \in NutrientSet : IsNum(row[f])

Max(a, b) == IF a >= b THEN a ELSE b

\* in this step the handler of request r sends a success response
Succeeds(r) == pc[r] \notin {"idle", "done"} /\ pc'[r] = "done" /\ resp'[r].code = 200

\* in this step request r arrives
Arrives(r) == pc[r] = "idle" /\ pc'[r] # "idle"

ValidScopes == {Str("daily"), Str("weekly")}

\* the handler of request r waits for the answer to a query
QueryInFlight(r) == pc[r] \in {"select", "insert", "update", "upsert_edit", "upsert_remove"}

GenericMessages == {"Failed to add intake", "Failed to edit intake", "Failed to remove intake"}

----------------------------------------------------------------------------
(* Properties *)

\* C1: an add that succeeds on a key without a record leaves exactly one
\* record under the key, every nutrient field of which is the field's delta
\* (0 for an absent field), and answers "created" with that record.
C1_AddOnAbsentCreates ==
    [][\A r \in Requests :
        (/\ Succeeds(r)
         /\ req[r].op = "add"
         /\ NumericPayload(req[r].payload)
         /\ Len(Stored(tables, r)) = 0)
        => /\ Len(Stored(tables', r)) = 1
           /\ \A f \in NutrientSet :
                Stored(tables', r)[1][f] = Num(Delta(req[r].payload, f))
           /\ resp'[r].status = "created"
           /\ resp'[r].intake = Stored(tables', r)[1]]_vars

C1_Witness ==
    \E r \in Requests :
        /\ pc[r] = "done" /\ req[r].op = "add" /\ resp[r].status = "created"
        /\ req[r].payload["calories"] = Num(MaxDelta)
        /\ req[r].payload["water"] = Undef
        /\ Stored(tables, r) = <<resp[r].intake>>
        /\ resp[r].intake.calories = Num(MaxDelta) /\ resp[r].intake.water = Num(0)

\* C2: an add that succeeds on a key holding record R stores R.field + D.field
\* in each of the six nutrient fields and answers "updated" with that record.
C2_AddOnPresentIncrements ==
    [][\A r \in Requests :
        (/\ Succeeds(r)
         /\ req[r].op = "add"
         /\ NumericPayload(req[r].payload)
         /\ Len(Stored(tables, r)) = 1
         /\ NumericRow(Stored(tables, r)[1]))
        => /\ Len(Stored(tables', r)) = 1
           /\ \A f \in NutrientSet :
                Stored(tables', r)[1][f] =
                    Num(Stored(tables, r)[1][f].n + Delta(req[r].payload, f))
           /\ resp'[r].status = "updated"
           /\ resp'[r].intake = Stored(tables', r)[1]]_vars

C2_Witness ==
    \E r \in Requests :
        /\ pc[r] = "done" /\ req[r].op = "add" /\ resp[r].status = "updated"
        /\ req[r].payload["calories"] = Num(1)
        /\ resp[r].intake.calories = Num(2)
        /\ resp[r].intake.protein = Num(1)
        /\ Stored(tables, r) = <<resp[r].intake>>

\* C3: a remove that succeeds stores max(0, current.field - D.field) in each
\* of the six nutrient fields, current being the record of the key or all
\* zeros when the key has none; no stored field is negative, and the answer
\* is "updated".
C3_RemoveClamps ==
    [][\A r \in Requests :
        (/\ Succeeds(r)
         /\ req[r].op = "remove"
         /\ NumericPayload(req[r].payload)
         /\ Len(Stored(tables, r)) <= 1
         /\ \A i \in 1..Len(Stored(tables, r)) : NumericRow(Stored(tables, r)[i]))
        => /\ Len(Stored(tables', r)) = 1
           /\ \A f \in NutrientSet :
                LET current == IF Len(Stored(tables, r)) = 0 THEN 0
                               ELSE Stored(tables, r)[1][f].n
                IN  /\ Stored(tables', r)[1][f] =
                            Num(Max(0, current - Delta(req[r].payload, f)))
                    /\ Stored(tables', r)[1][f].n >= 0
           /\ resp'[r].status = "updated"
           /\ resp'[r].intake = Stored(tables', r)[1]]_vars

\* a remove of 2 calories from a record that holds 1: the handler has
\* computed the clamped value 0 and sent it to the datastore
C3_Witness ==
    \E r \in Requests :
        /\ pc[r] = "upsert_remove" /\ req[r].op = "remove"
        /\ req[r].payload["calories"] = Num(2)
        /\ Len(Stored(tables, r)) = 1
        /\ Stored(tables, r)[1].calories = Num(1)
        /\ Stored(tables, r)[1].protein = Num(1)
        /\ params[r][3] = Num(0)
        /\ params[r][4] = Num(1)

\* C4: an edit that succeeds, whatever the key held before, leaves exactly
\* one record under the key, every nutrient field of which is the value
\* given, and 0 for a field the request omits; the answer is "upserted".
C4_EditOverwrites ==
    [][\A r \in Requests :
        (/\ Succeeds(r)
         /\ req[r].op = "edit"
         /\ NumericPayload(req[r].payload))
        => /\ Len(Stored(tables', r)) = 1
           /\ \A f \in NutrientSet :
                Stored(tables', r)[1][f] = Num(Delta(req[r].payload, f))
           /\ resp'[r].status = "upserted"
           /\ resp'[r].intake = Stored(tables', r)[1]]_vars

\* an edit giving calories only: the record holds it, and 0 for protein
C4_Witness ==
    \E r \in Requests :
        /\ pc[r] = "done" /\ req[r].op = "edit" /\ resp[r].status = "upserted"
        /\ req[r].payload["calories"] = Num(1)
        /\ req[r].payload["protein"] = Undef
        /\ Stored(tables, r) = <<resp[r].intake>>
        /\ resp[r].intake.calories = Num(1)
        /\ resp[r].intake.protein = Num(0)

\* C5: an edit that succeeds with the key and the values of the edit applied
\* just before it (no other write in between) leaves the nutrient values of
\* the stored records as the first application left them.
C5_EditIdempotent ==
    [][\A r \in Requests :
        (/\ Succeeds(r)
         /\ req[r].op = "edit"
         /\ SameAsLastEdit(r))
        => /\ NutrientsOfAll(tables') = NutrientsOfAll(tables)
           /\ Len(Stored(tables', r)) = 1
           /\ NutrientsOf(resp'[r].intake) = NutrientsOf(Stored(tables, r)[1])]_vars

C5_Witness ==
    \E r \in Requests :
        /\ pc[r] = "done" /\ req[r].op = "edit" /\ resp[r].status = "upserted"
        /\ lastEdit.times = 2
        /\ SameAsLastEdit(r)
        /\ req[r].payload["calories"] = Num(MaxDelta)
        /\ Stored(tables, r) = <<resp[r].intake>>

\* C6: a remove with deltas D >= 0 that succeeds on a key without a record
\* leaves the key with exactly one record, all six nutrient fields of which
\* are 0.
C6_RemoveOnAbsentCreatesZero ==
    [][\A r \in Requests :
        (/\ Succeeds(r)
         /\ req[r].op = "remove"
         /\ NumericPayload(req[r].payload)
         /\ \A f \in NutrientSet : Delta(req[r].payload, f) >= 0
         /\ Len(Stored(tables, r)) = 0)
        => /\ Len(Stored(tables', r)) = 1
           /\ \A f \in NutrientSet : Stored(tables', r)[1][f] = Num(0)]_vars

\* a remove of calories has created the first record of the weekly table
C6_Witness ==
    \E r \in Requests :
        /\ pc[r] = "done" /\ req[r].op = "remove" /\ resp[r].status = "updated"
        /\ req[r].scope = Str("weekly")
        /\ req[r].payload["calories"] = Num(MaxDelta)
        /\ \A f \in NutrientSet : resp[r].intake[f] = Num(0)
        /\ Stored(tables, r) = <<resp[r].intake>>
        /\ \A k \in Users \X Dates : tables["daily_intakes"][k] = <<>>

\* C7: every table holds at most one record per (user_id, date), under any
\* interleaving of add, edit and remove requests.
C7_OneRecordPerKey ==
    \A tab \in TableNames : \A k \in Users \X Dates : Len(tables[tab][k]) <= 1

\* two adds raced on the same absent key and both read it absent: one
\* created the record, the INSERT of the other failed
C7_Witness ==
    \E r \in Requests, q \in Requests :
        /\ r # q
        /\ pc[r] = "done" /\ req[r].op = "add" /\ resp[r].status = "created"
        /\ pc[q] = "done" /\ req[q].op = "add" /\ resp[q].code = 500
        /\ queries[q] = 2
        /\ req[r].payload["calories"] = Num(MaxDelta)
        /\ req[q].payload["calories"] = Num(1)
        /\ params[q][3] = Num(1)
        /\ Stored(tables, r) = <<resp[r].intake>>

\* C8: every nutrient field of every stored record is a non-negative number.
C8_NonNegative ==
    \A tab \in TableNames : \A k \in Users \X Dates :
        \A i \in 1..Len(tables[tab][k]) : \A f \in NutrientSet :
            IsNum(tables[tab][k][i][f]) /\ tables[tab][k][i][f].n >= 0

\* C9: a request whose scope is not exactly "daily" or "weekly" (a missing
\* scope included) is answered 400 with the message naming the allowed
\* values, no query is issued for it and the tables are unchanged.
C9_InvalidScopeRejected ==
    [][\A r \in Requests :
        (Arrives(r) /\ req'[r].scope \notin ValidScopes)
        => /\ pc'[r] = "done"
           /\ resp'[r] = Err(400, ScopeError)
           /\ queries'[r] = 0
           /\ tables' = tables]_vars

C9_Witness ==
    \E r \in Requests :
        /\ pc[r] = "done" /\ req[r].op = "remove"
        /\ req[r].scope = Str("monthly")
        /\ req[r].date = Str("2024-01-01")
        /\ resp[r].code = 400 /\ resp[r].error = ScopeError
        /\ queries[r] = 0

\* C10: a request with a valid scope and no date is answered 400 with the
\* date message, no query is issued for it and the tables are unchanged.
C10_MissingDateRejected ==
    [][\A r \in Requests :
        (/\ Arrives(r)
         /\ req'[r].scope \in ValidScopes
         /\ req'[r].date \in {Undef, Null})
        => /\ pc'[r] = "done"
           /\ resp'[r] = Err(400, DateError)
           /\ queries'[r] = 0
           /\ tables' = tables]_vars

C10_Witness ==
    \E r \in Requests :
        /\ pc[r] = "done" /\ req[r].op = "edit"
        /\ req[r].scope = Str("daily")
        /\ req[r].date = Undef
        /\ resp[r].code = 400 /\ resp[r].error = DateError
        /\ queries[r] = 0

\* C11: a request with a valid scope and date in which a given nutrient
\* field cannot be coerced to a number is answered 400 at once: no query is
\* issued for it and the tables are unchanged.
C11_NonNumericRejected ==
    [][\A r \in Requests :
        (/\ Arrives(r)
         /\ req'[r].scope \in ValidScopes
         /\ ~Falsy(req'[r].date)
         /\ \E f \in NutrientSet :
                /\ req'[r].payload[f].k \notin {"undef", "null"}
                /\ Number(req'[r].payload[f]) = NaN)
        => /\ pc'[r] = "done"
           /\ resp'[r].code = 400
           /\ queries'[r] = 0
           /\ tables' = tables]_vars

\* C12: when a query of a request fails, the request ends with 500 and the
\* generic message of its operation, the tables are as they were before the
\* failed query, and no query is issued for the request afterwards (no
\* retry).
C12_FailureIsGenericAndFinal ==
    [][\A r \in Requests :
        /\ (QueryInFlight(r) /\ resp'[r].code = 500)
            => /\ pc'[r] = "done"
               /\ resp'[r].error \in GenericMessages
               /\ resp'[r].status = "" /\ resp'[r].intake = Undef
               /\ queries'[r] = queries[r]
               /\ tables' = tables
        /\ pc[r] = "done"
            => /\ pc'[r] \in {"done", "idle"}
               /\ queries'[r] \in {queries[r], 0}
               /\ pc'[r] = "done" => resp'[r] = resp[r]]_vars

\* the upsert of a remove, its second query, has failed: the record is the
\* one the add before it created
C12_Witness ==
    \E r \in Requests :
        /\ pc[r] = "done" /\ req[r].op = "remove"
        /\ resp[r] = Err(500, "Failed to remove intake")
        /\ queries[r] = 2
        /\ req[r].payload["calories"] = Num(1)
        /\ params[r][3] = Num(0)
        /\ Len(Stored(tables, r)) = 1
        /\ Stored(tables, r)[1].calories = Num(1)

\* C13: the UPDATE of an add stores the sums the handler computed from the
\* row it read, whatever the key holds when the UPDATE runs: of two adds
\* that read the same baseline, the later write replaces the earlier, and
\* both are answered "updated".
C13_LaterWriteClobbers ==
    [][\A r \in Requests :
        (pc[r] = "update" /\ pc'[r] = "done" /\ resp'[r].code = 200)
        => /\ resp'[r].status = "updated"
           /\ Len(Stored(tables', r)) = 1
           /\ \A i \in 1..Len(NUTRIENT_FIELDS) :
                Stored(tables', r)[1][NUTRIENT_FIELDS[i]] = params[r][i + 2]]_vars

\* the lost update: two adds of 1 calorie on a record holding 1 both read
\* 1, both are answered "updated" with 2, and the record holds 2, not 3
C13_Witness ==
    \E r \in Requests, q \in Requests :
        /\ r # q
        /\ pc[r] = "done" /\ req[r].op = "add" /\ resp[r].status = "updated"
        /\ pc[q] = "done" /\ req[q].op = "add" /\ resp[q].status = "updated"
        /\ req[r].payload["calories"] = Num(1)
        /\ req[q].payload["calories"] = Num(1)
        /\ resp[r].intake.calories = Num(2)
        /\ resp[q].intake.calories = Num(2)
        /\ Len(Stored(tables, r)) = 1
        /\ Stored(tables, r)[1].calories = Num(2)

\* the request r has a write statement in flight
WriteInFlight(r) == pc[r] \in {"insert", "update", "upsert_edit", "upsert_remove"}

\* C14: a step that changes the stored data is the write of one successful
\* request, and it leaves the key's record with all six nutrient fields
\* equal to the six values that request computed and every other key as it
\* was; a request that fails changes nothing. So no stored record holds
\* fields written by two different operations.
C14_NoPartialApplication ==
    [][/\ tables' # tables
          => \E r \in Requests :
                /\ WriteInFlight(r) /\ pc'[r] = "done" /\ resp'[r].code = 200
                /\ Len(Stored(tables', r)) = 1
                /\ NutrientsOf(Stored(tables', r)[1])
                     = [i \in 1..Len(NUTRIENT_FIELDS) |-> params[r][i + 2]]
                /\ \A tab \in TableNames, k \in Users \X Dates :
                     (tab # TableOf(r) \/ k # Where(params[r]))
                     => tables'[tab][k] = tables[tab][k]
       /\ \A r \in Requests :
            (pc'[r] = "done" /\ pc[r] # "done" /\ resp'[r].code # 200)
            => tables' = tables]_vars

\* two concurrent adds naming different fields read the same record; the
\* later UPDATE rewrites all six fields, so the record holds the values of
\* that one add and the water of the other is gone, not merged
C14_Witness ==
    \E r \in Requests, q \in Requests :
        /\ r # q
        /\ pc[r] = "done" /\ req[r].op = "add" /\ resp[r].status = "updated"
        /\ pc[q] = "done" /\ req[q].op = "add" /\ resp[q].status = "updated"
        /\ req[r].payload["calories"] = Num(1) /\ req[r].payload["water"] = Undef
        /\ req[q].payload["water"] = Num(MaxDelta) /\ req[q].payload["calories"] = Undef
        /\ resp[q].intake.water = Num(MaxDelta)
        /\ Len(Stored(tables, r)) = 1
        /\ NutrientsOf(Stored(tables, r)[1]) = NutrientsOf(resp[r].intake)
        /\ Stored(tables, r)[1].water = Num(0)

\* the key k of table tab holds a record
Present(t, tab, k) == Len(t[tab][k]) > 0

\* C15: per key the record is absent or present (never two rows); a key
\* becomes present only by the write of a successful add, edit or remove on
\* that key, a successful request always leaves its key present, and no
\* step of any interleaving makes a present key absent.
C15_PresentStaysPresent ==
    [][/\ \A tab \in TableNames, k \in Users \X Dates :
            /\ Len(tables'[tab][k]) <= 1
            /\ Present(tables, tab, k) => Present(tables', tab, k)
            /\ (~Present(tables, tab, k) /\ Present(tables', tab, k))
                => \E r \in Requests :
                      /\ Succeeds(r) /\ req[r].op \in Ops
                      /\ tab = TableOf(r) /\ k = Where(params[r])
       /\ \A r \in Requests :
            Succeeds(r) => Present(tables', TableOf(r), Where(params[r]))]_vars

\* a record created with 1 calorie by an add and reduced to zero by a
\* remove is still stored, with all six fields at 0
C15_Witness ==
    \E r \in Requests, q \in Requests :
        /\ pc[q] = "done" /\ req[q].op = "add" /\ resp[q].status = "created"
        /\ resp[q].intake.calories = Num(1)
        /\ pc[r] = "done" /\ req[r].op = "remove" /\ resp[r].status = "updated"
        /\ req[r].payload["calories"] = Num(1)
        /\ resp[r].intake.calories = Num(0)
        /\ Len(Stored(tables, r)) = 1
        /\ \A f \in NutrientSet : Stored(tables, r)[1][f] = Num(0)

\* C16: every successful add, edit or remove, whether its statement inserts
\* the row or updates it, leaves the record of its key with updated_at
\* assigned by that statement (the time of the write).
C16_UpdatedAtSetOnEveryWrite ==
    [][\A r \in Requests :
        Succeeds(r)
        => /\ Len(Stored(tables', r)) = 1
           /\ Stored(tables', r)[1].updated_at = NOW]_vars

\* the statuses a success envelope of operation op may carry
SuccessStatuses(op) ==
    CASE op = "add" -> {"created", "updated"}
      [] op = "edit" -> {"upserted"}
      [] op = "remove" -> {"updated"}

\* C17: a request has no response until its handler ends and keeps the one
\* it got until the slot is reused. The response is a success envelope
\* (status allowed for the operation, intake equal to the record stored by
\* the write that the same step applied), or a 400 envelope sent on arrival
\* before any query, or a 500 envelope sent when a query fails.
C17_OneResponseEnvelope ==
    [][\A r \in Requests :
        /\ pc[r] # "done" => resp[r] = NoResp
        /\ (pc[r] = "done" /\ pc'[r] = "done") => resp'[r] = resp[r]
        /\ (pc[r] # "done" /\ pc'[r] = "done")
            => \/ /\ resp'[r].code = 200
                  /\ WriteInFlight(r)
                  /\ resp'[r].status \in SuccessStatuses(req[r].op)
                  /\ resp'[r].error = ""
                  /\ Stored(tables', r) = <<resp'[r].intake>>
               \/ /\ resp'[r].code = 400
                  /\ pc[r] = "idle" /\ queries'[r] = 0
                  /\ resp'[r] \in {Err(400, ScopeError), Err(400, DateError)}
                  /\ tables' = tables
               \/ /\ resp'[r].code = 500
                  /\ QueryInFlight(r)
                  /\ resp'[r] = Err(500, FailureMessage(req[r].op))
                  /\ tables' = tables]_vars

\* an add answered "updated" with the record its UPDATE stored, after two
\* queries
C17_Witness ==
    \E r \in Requests :
        /\ pc[r] = "done" /\ req[r].op = "add"
        /\ req[r].payload["water"] = Num(1)
        /\ queries[r] = 2
        /\ resp[r].code = 200 /\ resp[r].status = "updated" /\ resp[r].error = ""
        /\ resp[r].intake.water = Num(MaxVal)
        /\ resp[r].intake.updated_at = NOW
        /\ Stored(tables, r) = <<resp[r].intake>>

\* C18: when the datastore eventually answers every query, a request whose
\* handler awaits a query eventually ends with a response.
C18_EveryRequestTerminates ==
    \A r \in Requests : QueryInFlight(r) ~> (pc[r] = "done" /\ resp[r] # NoResp)

\* one request has been answered after its two queries while the other
\* still awaits its second query
C18_Witness ==
    \E r \in Requests, q \in Requests :
        /\ pc[r] = "done" /\ queries[r] = 2 /\ resp[r].code = 200
        /\ req[r].op = "remove"
        /\ pc[q] = "update" /\ queries[q] = 2 /\ resp[q] = NoResp

\* C19: a successful add or remove on a key that holds a record leaves
\* every nutrient field its payload does not name with the stored value it
\* had; with an empty payload all six fields are unchanged.
C19_AbsentFieldUnchanged ==
    [][\A r \in Requests :
        (/\ Succeeds(r)
         /\ req[r].op \in {"add", "remove"}
         /\ Len(Stored(tables, r)) = 1)
        => /\ Len(Stored(tables', r)) = 1
           /\ \A f \in NutrientSet :
                req[r].payload[f] = Undef
                => Stored(tables', r)[1][f] = Stored(tables, r)[1][f]]_vars

\* C20: whatever the interleaving, the record under the key of the last
\* edit that executed holds exactly the six values of that edit (0 for the
\* fields it does not name) until another write executes, and every edit
\* whose upsert is answered succeeds with "upserted" in that one step,
\* whether the key held a record or not.
C20_LastOverwriteWins ==
    /\ lastEdit # NoEdit
        => LET row == tables[tableForScope(lastEdit.scope).s][<<lastEdit.userId, lastEdit.date.s>>]
           IN  /\ Len(row) = 1
               /\ NutrientsOf(row[1]) = PayloadVals(lastEdit.payload)
    /\ \A r \in Requests :
        (pc[r] = "done" /\ req[r].op = "edit" /\ resp[r].code = 200)
        => /\ resp[r].status = "upserted"
           /\ queries[r] = 1
           /\ NutrientsOf(resp[r].intake) = PayloadVals(req[r].payload)

\* two concurrent edits with different calories, both started on the absent
\* key, are both answered "upserted"; the record holds the values of the
\* one that executed last
C20_Witness ==
    \E r \in Requests, q \in Requests :
        /\ r # q
        /\ pc[r] = "done" /\ req[r].op = "edit" /\ resp[r].status = "upserted"
        /\ pc[q] = "done" /\ req[q].op = "edit" /\ resp[q].status = "upserted"
        /\ req[r].payload["calories"] = Num(1)
        /\ req[q].payload["calories"] = Num(MaxDelta)
        /\ resp[r].intake.updated_at = DEFAULT
        /\ resp[q].intake.updated_at = NOW
        /\ lastEdit.payload = req[q].payload
        /\ Stored(tables, q) = <<resp[q].intake>>
        /\ Stored(tables, q)[1].calories = Num(MaxDelta)

\* requests r and q are two adds on the same key that were both answered
\* "created"
BothCreated(r, q) ==
    /\ r # q
    /\ pc[r] = "done" /\ req[r].op = "add" /\ resp[r].status = "created"
    /\ pc[q] = "done" /\ req[q].op = "add" /\ resp[q].status = "created"
    /\ req[r].userId = req[q].userId
    /\ req[r].scope = req[q].scope /\ req[r].date = req[q].date

\* C21: an add that read its key as absent and whose INSERT is answered
\* when the key holds a record ends with the generic 500 error in that
\* step, issues no further query and leaves the record as the other request
\* wrote it; so two concurrent adds on an absent key are never both
\* answered "created".
C21_InsertRaceLoserFails ==
    [][\A r \in Requests :
        /\ (pc[r] = "insert" /\ Len(Stored(tables, r)) > 0 /\ pc'[r] # pc[r])
            => /\ pc'[r] = "done"
               /\ resp'[r] = Err(500, "Failed to add intake")
               /\ queries'[r] = queries[r]
               /\ tables' = tables
        /\ \A q \in Requests : ~BothCreated(r, q)]_vars

\* both adds read the key as absent; the add of MaxDelta calories is
\* answered "created", the add of 1 calorie is answered 500 after its two
\* queries, and the record holds MaxDelta only
C21_Witness ==
    \E r \in Requests, q \in Requests :
        /\ r # q
        /\ pc[r] = "done" /\ req[r].op = "add" /\ resp[r].status = "created"
        /\ req[r].payload["calories"] = Num(MaxDelta)
        /\ pc[q] = "done" /\ req[q].op = "add"
        /\ req[q].payload["calories"] = Num(1)
        /\ resp[q] = Err(500, "Failed to add intake")
        /\ queries[q] = 2
        /\ params[q][3] = Num(1)
        /\ Stored(tables, r) = <<resp[r].intake>>
        /\ Stored(tables, r)[1].calories = Num(MaxDelta)

\* C22: the upsert of a remove stores the six values the handler computed
\* from the record it read, whatever the key holds when the upsert runs,
\* and the remove is answered "updated" with that record: a write that
\* committed between the read and the upsert is replaced.
C22_RemoveWritesStaleValues ==
    [][\A r \in Requests :
        (pc[r] = "upsert_remove" /\ Succeeds(r))
        => /\ req[r].op = "remove"
           /\ resp'[r].status = "updated"
           /\ Stored(tables', r) = <<resp'[r].intake>>
           /\ NutrientsOf(resp'[r].intake)
                = [i \in 1..Len(NUTRIENT_FIELDS) |-> params[r][i + 2]]]_vars

\* an edit to MaxDelta calories committed after the remove of 1 calorie had
\* read the key: the remove is answered "updated" with 0 calories and the
\* record holds 0, not MaxDelta - 1
C22_Witness ==
    \E r \in Requests, q \in Requests :
        /\ r # q
        /\ pc[q] = "done" /\ req[q].op = "edit" /\ resp[q].status = "upserted"
        /\ req[q].payload["calories"] = Num(MaxDelta)
        /\ resp[q].intake.calories = Num(MaxDelta)
        /\ pc[r] = "done" /\ req[r].op = "remove" /\ resp[r].status = "updated"
        /\ req[r].payload["calories"] = Num(1)
        /\ resp[r].intake.calories = Num(0)
        /\ resp[r].intake.updated_at = NOW
        /\ Stored(tables, r) = <<resp[r].intake>>

\* The reference the read-then-write handlers are compared with: add and
\* remove as one atomic upsert expression on the record rows of a key.
\* Absent key: insert the delta (add) or the delta taken from 0 and clamped
\* (remove); present key: add the delta to the stored value (add) or
\* subtract it and clamp at zero (remove).
AtomicUpsert(op, rows, payload) ==
    LET baseOf(f) == IF Len(rows) = 0 THEN 0 ELSE rows[1][f].n
        valueOf(f) == IF op = "add" THEN baseOf(f) + Delta(payload, f)
                      ELSE Max(baseOf(f) - Delta(payload, f), 0)
    IN  <<[i \in 1..Len(NUTRIENT_FIELDS) |-> Num(valueOf(NUTRIENT_FIELDS[i]))]>>

\* C23: with one operation at a time, each successful add or remove leaves
\* every key as the atomic upsert expression applied to the stored data
\* would: the key of the request present with the values of AtomicUpsert,
\* every other key untouched.
C23_MatchesAtomicUpsert ==
    [][\A r \in Requests :
        (/\ Succeeds(r)
         /\ req[r].op \in {"add", "remove"}
         /\ NumericPayload(req[r].payload))
        => NutrientsOfAll(tables')
             = [NutrientsOfAll(tables) EXCEPT
                  ![TableOf(r)][Where(params[r])] =
                      AtomicUpsert(req[r].op, Stored(tables, r), req[r].payload)]]_vars

\* a remove of 1 unit of water on a record holding MaxVal units took the
\* update branch of its upsert and answers MaxVal - 1
C23_Witness ==
    \E r \in Requests :
        /\ pc[r] = "done" /\ req[r].op = "remove" /\ resp[r].status = "updated"
        /\ req[r].payload["water"] = Num(1)
        /\ resp[r].intake.water = Num(MaxVal - 1)
        /\ resp[r].intake.updated_at = NOW
        /\ Stored(tables, r) = <<resp[r].intake>>

\* C24: a step that changes the stored data is the write of one request,
\* and every record other than the one under that request's user, date and
\* scope is as it was: other users, other dates and the other scope's
\* table are untouched.
C24_OtherKeysUnchanged ==
    [][tables' # tables
        => \E r \in Requests :
              /\ WriteInFlight(r) /\ pc'[r] = "done"
              /\ \A tab \in TableNames, user \in Users, date \in Dates :
                    (\/ Str(tab) # tableForScope(req[r].scope)
                     \/ user # req[r].userId
                     \/ Str(date) # req[r].date)
                    => tables'[tab][<<user, date>>] = tables[tab][<<user, date>>]]_vars

\* the add has raised the daily record of u1 on 2024-01-01 to MaxVal while
\* the weekly record, the record of the next day and the record of u2 each
\* still hold 1 calorie
C24_Witness ==
    \E r \in Requests :
        /\ pc[r] = "done" /\ req[r].op = "add" /\ resp[r].status = "updated"
        /\ req[r].userId = "u1" /\ req[r].scope = Str("daily")
        /\ req[r].date = Str("2024-01-01")
        /\ Stored(tables, r) = <<resp[r].intake>>
        /\ resp[r].intake.calories = Num(MaxVal)
        /\ Len(tables["weekly_intakes"][<<"u1", "2024-01-01">>]) = 1
        /\ tables["weekly_intakes"][<<"u1", "2024-01-01">>][1].calories = Num(1)
        /\ Len(tables["daily_intakes"][<<"u1", "2024-01-02">>]) = 1
        /\ tables["daily_intakes"][<<"u1", "2024-01-02">>][1].calories = Num(1)
        /\ Len(tables["daily_intakes"][<<"u2", "2024-01-01">>]) = 1
        /\ tables["daily_intakes"][<<"u2", "2024-01-01">>][1].calories = Num(1)

\* the first request succeeded with operation first and the second, sent
\* after the answer of the first with the same deltas, succeeded too
PairDone(first) ==
    /\ pc[1] = "done" /\ resp[1].code = 200 /\ req[1].op = first
    /\ pc[2] = "done" /\ resp[2].code = 200 /\ req[2].op = Inverse(first)
    /\ req[2].payload = req[1].payload

\* the record the pair started from: the copy under the second user
PairOriginal == tables["daily_intakes"][<<"u2", "2024-01-01">>][1]

\* C25: on a record with non-negative fields, an add of deltas D >= 0
\* followed by a remove of D leaves every nutrient field as it was; a
\* remove of D followed by an add of D leaves a field as it was exactly
\* when its delta is at most the value the field had.
C25_AddRemoveRoundTrip ==
    /\ PairDone("add")
        => NutrientsOf(Stored(tables, 1)[1]) = NutrientsOf(PairOriginal)
    /\ PairDone("remove")
        => \A f \in NutrientSet :
              (Stored(tables, 1)[1][f] = PairOriginal[f])
                <=> (Delta(req[1].payload, f) <= PairOriginal[f].n)

\* remove then add of MaxDelta calories and 1 unit of water on a record
\* with 1 calorie and 1 unit of water: water is restored, calories are not
C25_Witness ==
    /\ PairDone("remove")
    /\ req[1].payload["calories"] = Num(MaxDelta)
    /\ req[1].payload["water"] = Num(1)
    /\ PairOriginal.calories = Num(1) /\ PairOriginal.water = Num(1)
    /\ Stored(tables, 1)[1].calories = Num(MaxDelta)
    /\ Stored(tables, 1)[1].water = Num(1)

\* C26: a request for an endpoint listed in availableEndpoints (its method,
\* its path with 42 for :id and 7 for :intakeId) is handled by the route
\* registered with that method and path, not by the catch-all 404 handler
\* and not by another route.
C26_AdvertisedEndpointsRouted ==
    periph.kind = "route"
    => \A i \in 1..Len(AvailableEndpointsOf(periph.app)) :
          LET e == AvailableEndpointsOf(periph.app)[i]
          IN  (periph.method = e.method /\ periph.path = PathFor(e.pattern))
              => /\ periph.handler.method = e.method
                 /\ periph.handler.pattern = e.pattern

\* C27: the users table changes only by the update of a request answered
\* 200; in the rows of the user it names every allow-listed column the
\* body carries gets the value sent, updated_at gets the time of the
\* request, every other column (id and username included) keeps its value,
\* and the rows of other users keep theirs. A body with no allow-listed
\* key is answered 400 on arrival, without a query.
C27_PatchWritesAllowListOnly ==
    [][/\ periph'.users # periph.users
          => /\ periph.pc = "update" /\ periph'.status = 200
             /\ \A u \in Usernames, c \in UserColumns :
                  periph'.users[u][c] =
                    IF u # periph.username THEN periph.users[u][c]
                    ELSE IF c = "updated_at" THEN NowISO
                    ELSE IF c \in AllowedSet /\ c \in DOMAIN periph.body
                         THEN periph.body[c]
                    ELSE periph.users[u][c]
       /\ (periph.pc = "idle" /\ periph'.pc # "idle"
             /\ DOMAIN periph'.body \cap AllowedSet = {})
          => /\ periph'.pc = "done" /\ periph'.status = 400
             /\ periph'.queries = 0
             /\ periph'.users = periph.users]_vars

\* a body carrying age, id, username and updated_at was answered 200: of
\* the row of alice only age holds the value sent, updated_at holds the
\* time of the request; the row of bob is as stored
C27_Witness ==
    /\ periph.kind = "patch" /\ periph.pc = "done" /\ periph.status = 200
    /\ periph.username = "alice"
    /\ DOMAIN periph.body = {"age", "id", "username", "updated_at"}
    /\ periph.users["alice"]["age"] = "sent"
    /\ periph.users["alice"]["id"] = "stored"
    /\ periph.users["alice"]["username"] = "alice"
    /\ periph.users["alice"]["goals"] = "stored"
    /\ periph.users["alice"]["updated_at"] = NowISO
    /\ periph.users["bob"] = StoredUser("bob")

\* the required fields of the route being served that its body omits
AbsentFields ==
    {f \in BodyFieldsOf(periph.route) :
        /\ \E i \in 1..Len(RequiredFieldsOf(periph.route)) : RequiredFieldsOf(periph.route)[i] = f
        /\ periph.body[f] = Undef}

\* C28: a request is rejected by the middleware (400, handler and
\* datastore not reached) exactly when its body omits a required field,
\* and missingFields lists exactly the omitted fields; a body that gives
\* every required field, whatever the values, reaches the handler.
C28_RejectsExactlyMissing ==
    (periph.kind = "validate" /\ periph.pc # "idle")
    => /\ (periph.status = 400) <=> (AbsentFields # {})
       /\ periph.status = 400
            => /\ {periph.missingFields[i] : i \in 1..Len(periph.missingFields)} = AbsentFields
               /\ periph.queries = 0
       /\ AbsentFields = {} => periph.pc \in {"handler", "insert", "done"}

\* C29: for every day a request arrives, the offset to Monday is in 0..6,
\* monday is a Monday and sunday a Sunday, monday <= today <= sunday and
\* sunday is 6 days after monday; a request for a user without a row is
\* answered 404 (or 500 when the query fails) after the query on users
\* alone.
C29_WeekContainsToday ==
    (periph.kind = "getUser" /\ periph.pc # "idle")
    => /\ periph.diffToMonday \in 0..6
       /\ getDay(periph.monday) = 1 /\ getDay(periph.sunday) = 0
       /\ DayNumber(periph.monday) <= DayNumber(periph.today)
       /\ DayNumber(periph.today) <= DayNumber(periph.sunday)
       /\ DayNumber(periph.sunday) = DayNumber(periph.monday) + 6
       /\ periph.userId \notin UserIds
            => /\ periph.queried = <<"users">>
               /\ periph.pc = "done" => periph.status \in {404, 500}
       /\ periph.status = 404 => periph.userId \notin UserIds

\* a request on Sunday 2024-03-03 for a user that exists: the week runs
\* from Monday 2024-02-26, in the month before, to that Sunday
C29_Witness ==
    /\ periph.kind = "getUser" /\ periph.pc = "done" /\ periph.status = 200
    /\ periph.today = [m |-> 3, d |-> 3]
    /\ periph.diffToMonday = 6
    /\ periph.monday = [m |-> 2, d |-> 26]
    /\ periph.sunday = [m |-> 3, d |-> 3]
    /\ periph.queried = <<"users", "daily_intakes", "weekly_intakes">>

====
